---- MODULE Spec2Model ----
(***************************************************************************)
(* Model of tap_iceberg/streams.py: IcebergTableStream.                    *)
(*                                                                         *)
(* Two specifications:                                                     *)
(*   Spec        the stream after construction, the host applying a        *)
(*               catalog, and get_records run as the lazy generator it is  *)
(*               (cursor resolution, filter, scan, per-batch sort, rows).  *)
(*   FormatSpec  _create_formatters / _format_date / _format_record as     *)
(*               pure functions over bounded schemas and rows.             *)
(***************************************************************************)
EXTENDS Integers, Sequences, FiniteSets, TLC

VARIABLES
    sort_fields,        \* self._iceberg_table.sort_order().fields (source ids)
    replication_key,    \* self._replication_key
    key_external,       \* ghost: the host assigned replication_key after __init__
    pc,                 \* generator position: idle / streaming / exhausted / raised
    error,              \* exception that left get_records ("" when none)
    start_value,        \* what get_starting_replication_key_value returned
    filter_expression,  \* row_filter handed to scan()
    scan_requested,     \* scan() was called in this invocation
    sort_applied,       \* batch_reader was wrapped by _create_sorted_batch_reader
    delivered,          \* number of batches the table layer has delivered
    batch_in,           \* the batch last delivered by the table layer
    records,            \* batch.to_pylist() of the batch being emitted
    emitted,            \* formatted records yielded from the current batch
    schema,             \* self.schema["properties"]
    fmt_row,            \* FormatSpec: the row given to _format_record
    fmt_result          \* FormatSpec: its result

vars == <<sort_fields, replication_key, key_external, pc, error, start_value,
          filter_expression, scan_requested, sort_applied, delivered, batch_in,
          records, emitted, schema, fmt_row, fmt_result>>

----------------------------------------------------------------------------
(* Bounds of the model.                                                    *)

\* batches one scan delivers at most
MaxBatches == 3
\* rows in one batch at most
MaxRows == 2

----------------------------------------------------------------------------
(* Python values.  A value is a record tagged by k; strings are sequences  *)
(* of one-character strings so that slicing and parsing are computed.      *)

None == [k |-> "none"]
IntV(n) == [k |-> "int", n |-> n]
StrV(s) == [k |-> "str", s |-> s]
\* datetime.date(y, m, d)
DateV(y, m, d) == [k |-> "date", d |-> <<y, m, d>>]
\* datetime.datetime(y, m, d, H, M, S, tzinfo); tz is <<>> when naive, else
\* <<offset in minutes>>
DateTimeV(t, tz) == [k |-> "datetime", t |-> t, tz |-> tz]

\* Python truthiness of a value (the test of `if start_value:`)
Truthy(v) ==
    CASE v.k = "none" -> FALSE
      [] v.k = "int" -> v.n # 0
      [] v.k = "str" -> Len(v.s) > 0
      [] OTHER -> TRUE

DigitChars == <<"0", "1", "2", "3", "4", "5", "6", "7", "8", "9">>
IsDigit(c) == \E i \in 1..10 : DigitChars[i] = c
DigitVal(c) == (CHOOSE i \in 1..10 : DigitChars[i] = c) - 1
DigitChar(n) == DigitChars[n + 1]
Pad2(n) == <<DigitChar((n \div 10) % 10), DigitChar(n % 10)>>
Pad4(n) == Pad2(n \div 100) \o Pad2(n % 100)
AllDigits(s) == \A i \in 1..Len(s) : IsDigit(s[i])
Num2(s) == DigitVal(s[1]) * 10 + DigitVal(s[2])
Num4(s) == Num2(SubSeq(s, 1, 2)) * 100 + Num2(SubSeq(s, 3, 4))

\* s[:n]
Slice(s, n) == SubSeq(s, 1, IF Len(s) < n THEN Len(s) ELSE n)

IsLeap(y) == (y % 4 = 0 /\ y % 100 # 0) \/ y % 400 = 0
DaysInMonth(y, m) ==
    IF m = 2 THEN (IF IsLeap(y) THEN 29 ELSE 28)
    ELSE IF m \in {4, 6, 9, 11} THEN 30 ELSE 31

\* date.isoformat(): YYYY-MM-DD
DateIso(d) == Pad4(d[1]) \o <<"-">> \o Pad2(d[2]) \o <<"-">> \o Pad2(d[3])

\* the UTC offset suffix of datetime.isoformat(): +HH:MM / -HH:MM
OffsetIso(tz) ==
    IF tz = <<>> THEN <<>>
    ELSE LET m == tz[1]
             a == IF m < 0 THEN 0 - m ELSE m
         IN  <<IF m < 0 THEN "-" ELSE "+">> \o Pad2(a \div 60) \o <<":">> \o Pad2(a % 60)

\* datetime.isoformat() of a value with zero microseconds
DateTimeIso(t, tz) ==
    DateIso(<<t[1], t[2], t[3]>>) \o <<"T">> \o Pad2(t[4]) \o <<":">> \o Pad2(t[5])
        \o <<":">> \o Pad2(t[6]) \o OffsetIso(tz)

\* value.isoformat() for a date or a datetime
IsoFormat(v) == IF v.k = "date" THEN DateIso(v.d) ELSE DateTimeIso(v.t, v.tz)

\* the YYYY-MM-DD prefix of an ISO text is well formed and names a real day
DatePartOk(s) ==
    /\ Len(s) >= 10
    /\ AllDigits(SubSeq(s, 1, 4)) /\ s[5] = "-"
    /\ AllDigits(SubSeq(s, 6, 7)) /\ s[8] = "-"
    /\ AllDigits(SubSeq(s, 9, 10))
    /\ Num4(s) >= 1
    /\ Num2(SubSeq(s, 6, 7)) \in 1..12
    /\ Num2(SubSeq(s, 9, 10)) \in 1..DaysInMonth(Num4(s), Num2(SubSeq(s, 6, 7)))

\* the HH[:MM[:SS]] text t is well formed
TimePartOk(t) ==
    /\ Len(t) \in {2, 5, 8}
    /\ AllDigits(SubSeq(t, 1, 2)) /\ Num2(t) \in 0..23
    /\ Len(t) >= 5 =>
          /\ t[3] = ":" /\ AllDigits(SubSeq(t, 4, 5))
          /\ Num2(SubSeq(t, 4, 5)) \in 0..59
    /\ Len(t) >= 8 =>
          /\ t[6] = ":" /\ AllDigits(SubSeq(t, 7, 8))
          /\ Num2(SubSeq(t, 7, 8)) \in 0..59

\* the text z is a UTC offset +HH:MM / -HH:MM
OffsetOk(z) ==
    /\ Len(z) = 6 /\ z[1] \in {"+", "-"}
    /\ AllDigits(SubSeq(z, 2, 3)) /\ z[4] = ":" /\ AllDigits(SubSeq(z, 5, 6))
    /\ Num2(SubSeq(z, 2, 3)) \in 0..23 /\ Num2(SubSeq(z, 5, 6)) \in 0..59

\* where the offset suffix of s starts (0 when s has none)
OffsetAt(s) ==
    IF Len(s) >= 19 /\ s[Len(s) - 5] \in {"+", "-"} THEN Len(s) - 5 ELSE 0

\* datetime.fromisoformat accepts s: YYYY-MM-DD[*HH[:MM[:SS]][+HH:MM]]
IsoOk(s) ==
    /\ DatePartOk(s)
    /\ Len(s) > 10 =>
          LET z == OffsetAt(s)
              body == IF z = 0 THEN s ELSE SubSeq(s, 1, z - 1)
          IN  /\ Len(body) >= 13
              /\ TimePartOk(SubSeq(body, 12, Len(body)))
              /\ z # 0 => OffsetOk(SubSeq(s, z, Len(s)))

\* datetime.fromisoformat(s), for a text IsoOk accepts
FromIso(s) ==
    LET z == OffsetAt(s)
        body == IF z = 0 THEN s ELSE SubSeq(s, 1, z - 1)
        f(i) == IF Len(body) >= i + 1 THEN Num2(SubSeq(body, i, i + 1)) ELSE 0
        tz == IF z = 0 THEN <<>>
              ELSE <<(IF s[z] = "-" THEN -1 ELSE 1)
                       * (Num2(SubSeq(s, z + 1, z + 2)) * 60 + Num2(SubSeq(s, z + 4, z + 5)))>>
    IN  DateTimeV(<<Num4(s), Num2(SubSeq(s, 6, 7)), Num2(SubSeq(s, 9, 10)),
                    f(12), f(15), f(18)>>, tz)

\* dt.replace(tzinfo=None)
ReplaceTzNone(dt) == [dt EXCEPT !.tz = <<>>]

----------------------------------------------------------------------------
(* The table: its columns, the stream schema derived from them, and the    *)
(* order in which the table layer compares values.                         *)

\* absence of a replication key (Python None)
NoKey == "<none>"

\* column of the Iceberg table: field id, name, physical type, nullability
Column(id, name, type, nullable) ==
    [id |-> id, name |-> name, type |-> type, nullable |-> nullable]

\* the table of the model: id int, ts date, val string
TableColumns(tsNullable, valNullable) ==
    << Column(1, "id", "integer", FALSE),
       Column(2, "ts", "date", tsNullable),
       Column(3, "val", "string", valNullable) >>

\* iceberg_table.schema().find_field(source_id).name
FindFieldName(cols, source_id) ==
    cols[CHOOSE i \in 1..Len(cols) : cols[i].id = source_id].name

\* generate_schema_from_pyarrow: the "properties" of the stream's JSON schema
GenerateSchema(cols) ==
    [name \in {cols[i].name : i \in 1..Len(cols)} |->
        LET c == cols[CHOOSE i \in 1..Len(cols) : cols[i].name = name]
        IN  [type |-> <<IF c.type = "integer" THEN "integer" ELSE "string">>
                        \o (IF c.nullable THEN <<"null">> ELSE <<>>),
             format |-> IF c.type = "date" THEN "date" ELSE ""]]

\* a < b for two tuples of the same length, lexicographically
TupleLess(a, b) ==
    \E i \in 1..Len(a) : a[i] < b[i] /\ \A j \in 1..(i - 1) : a[j] = b[j]

\* a value can be placed in the table layer's order
Comparable(v) == v.k \in {"int", "date", "datetime"} \/ (v.k = "str" /\ IsoOk(v.s))

\* position of a comparable value in that order (timestamps by wall-clock fields)
OrdKey(v) ==
    CASE v.k = "int" -> <<v.n, 0, 0, 0, 0, 0>>
      [] v.k = "date" -> <<v.d[1], v.d[2], v.d[3], 0, 0, 0>>
      [] v.k = "datetime" -> v.t
      [] v.k = "str" -> FromIso(v.s).t

\* a > b in the table layer's order
Greater(a, b) == Comparable(a) /\ Comparable(b) /\ TupleLess(OrdKey(b), OrdKey(a))

----------------------------------------------------------------------------
(* Record formatting: _create_formatters, _format_date, _format_record.    *)

\* _format_date without the [:10] truncation
format_date_untruncated(value) ==
    IF value.k \in {"date", "datetime"} THEN StrV(IsoFormat(value))
    ELSE IF value.k = "str" THEN StrV(value.s)
    ELSE None

\* _format_date(value)
format_date(value) ==
    IF value.k \in {"date", "datetime"} THEN StrV(Slice(IsoFormat(value), 10))
    ELSE IF value.k = "str" THEN StrV(Slice(value.s, 10))
    ELSE None

\* _create_formatters(): the rule chosen for each property of the schema
create_formatters(properties) ==
    [field \in DOMAIN properties |->
        IF properties[field].format = "date"
              /\ properties[field].type = <<"string", "null">>
        THEN "date"
        ELSE IF \E i \in 1..Len(properties[field].type) :
                    properties[field].type[i] = "null"
        THEN "nullable"
        ELSE "identity"]

\* calling the lambda stored for a rule
ApplyFormatter(rule, x) ==
    CASE rule = "date" -> format_date(x)
      [] rule = "nullable" -> (IF x.k # "none" THEN x ELSE None)
      [] OTHER -> x

\* _format_record(record, formatters); raised stands for the KeyError of
\* formatters[field] on a field the schema does not have
format_record(record, formatters) ==
    IF DOMAIN record \subseteq DOMAIN formatters
    THEN [raised |-> FALSE,
          value |-> [field \in DOMAIN record |->
                        ApplyFormatter(formatters[field], record[field])]]
    ELSE [raised |-> TRUE, value |-> <<>>]

----------------------------------------------------------------------------
(* The scan: filter, table layer, per-batch sort.                          *)

AlwaysTrue == [op |-> "AlwaysTrue"]
GreaterThan(term, literal) == [op |-> "GreaterThan", term |-> term, literal |-> literal]

\* get_records, from the cursor to the filter: raised stands for the
\* ValueError of datetime.fromisoformat
build_filter(key, value) ==
    IF Truthy(value)
    THEN IF value.k = "str"
         THEN IF IsoOk(value.s)
              THEN [raised |-> FALSE,
                    filter |-> GreaterThan(key,
                        StrV(IsoFormat(ReplaceTzNone(FromIso(value.s)))))]
              ELSE [raised |-> TRUE, filter |-> AlwaysTrue]
         ELSE [raised |-> FALSE, filter |-> GreaterThan(key, value)]
    ELSE [raised |-> FALSE, filter |-> AlwaysTrue]

\* the table layer's row test for a predicate it can bind
Satisfies(row, flt) ==
    \/ flt.op = "AlwaysTrue"
    \/ /\ flt.op = "GreaterThan"
       /\ flt.term \in DOMAIN row
       /\ Greater(row[flt.term], flt.literal)

\* the table layer can bind the predicate to the table's columns
Bindable(flt) == flt.op = "AlwaysTrue" \/ flt.term # NoKey

\* is_sorted with the negation dropped
is_sorted_negated == Len(sort_fields) = 0

\* is_sorted: not sort_order().is_unsorted
is_sorted == Len(sort_fields) # 0

\* the orders of x and y that sort_by may produce: ascending, nulls last
KeyLeq(x, y) == y.k = "none" \/ (x.k # "none" /\ ~Greater(x, y))

\* sort_by in descending order
sort_by_descending(batch, sort_key) ==
    { out \in { [i \in 1..Len(batch) |-> batch[p[i]]] : p \in Permutations(1..Len(batch)) } :
        \A i, j \in 1..Len(out) : i < j => KeyLeq(out[j][sort_key], out[i][sort_key]) }

\* batch.sort_by(sort_key): the results it may yield (ties in any order)
sort_by(batch, sort_key) ==
    { out \in { [i \in 1..Len(batch) |-> batch[p[i]]] : p \in Permutations(1..Len(batch)) } :
        \A i, j \in 1..Len(out) : i < j => KeyLeq(out[i][sort_key], out[j][sort_key]) }

\* what iterating the reader yields for a batch the table layer delivered
read_batch(batch, wrapped, sort_key) ==
    IF wrapped THEN sort_by(batch, sort_key) ELSE {batch}

----------------------------------------------------------------------------
(* Inputs of the model.                                                    *)

\* "2023-01-01"
TextJan1 == <<"2", "0", "2", "3", "-", "0", "1", "-", "0", "1">>
\* "T00:00:00"
TextMidnight == <<"T", "0", "0", ":", "0", "0", ":", "0", "0">>
\* "+02:00"
TextPlus2 == <<"+", "0", "2", ":", "0", "0">>
\* "2023-05-17T10:00:00"
TextMay17 ==
    <<"2", "0", "2", "3", "-", "0", "5", "-", "1", "7",
      "T", "1", "0", ":", "0", "0", ":", "0", "0">>

\* sort orders a table may declare (source ids of its sort fields)
SortOrders == {<<>>, <<1>>, <<2>>, <<1, 2>>, <<2, 1>>}

\* replication keys a catalog may assign
CatalogKeys == {NoKey, "id", "ts"}

\* cursor values the host may return
StartValues ==
    { None, IntV(0), IntV(1), DateV(2023, 1, 1),
      StrV(<<>>), StrV(<<"x">>), StrV(TextJan1),
      StrV(TextJan1 \o TextMidnight), StrV(TextJan1 \o TextMidnight \o TextPlus2) }

\* a cursor is of the kind of the column it was taken from
Compatible(key, value) ==
    CASE key = "id" -> value.k \in {"none", "int"}
      [] key = "ts" -> value.k \in {"none", "str", "date", "datetime"}
      [] OTHER -> TRUE

\* rows the table may hold
SampleRows ==
    { [id |-> IntV(0), ts |-> DateV(2023, 1, 2), val |-> StrV(<<"a">>)],
      [id |-> IntV(1), ts |-> DateV(2023, 1, 1), val |-> None],
      [id |-> IntV(2), ts |-> DateV(2023, 1, 5), val |-> StrV(<<"a">>)],
      [id |-> IntV(1), ts |-> None, val |-> StrV(<<"a">>)],
      [id |-> IntV(2), ts |-> DateV(2023, 1, 2)],
      [id |-> IntV(0), ts |-> DateV(2023, 1, 5), val |-> None, extra |-> IntV(1)] }

\* batches the table layer may deliver for a predicate: rows that satisfy it
Batches(flt) ==
    UNION { [1..n -> {r \in SampleRows : Satisfies(r, flt)}] : n \in 0..MaxRows }

\* FormatSpec: values a field of a row may hold
FormatValues(field) ==
    CASE field = "id" -> {None, IntV(1)}
      [] field = "ts" -> { None, DateV(2023, 5, 17), IntV(19494),
                           DateTimeV(<<2023, 5, 17, 10, 0, 0>>, <<>>),
                           StrV(TextMay17), StrV(<<"2", "0", "2", "3">>) }
      [] field = "val" -> {None, StrV(<<"a">>)}
      [] OTHER -> {IntV(1)}

\* FormatSpec: the rows given to _format_record
FormatRows ==
    UNION { { r \in [D -> UNION {FormatValues(f) : f \in D}] :
                \A f \in D : r[f] \in FormatValues(f) } :
            D \in SUBSET {"id", "ts", "val", "extra"} }

----------------------------------------------------------------------------
(* The stream.                                                             *)

\* __init__ taking the first sort field of any non-empty sort order
InferFromFirstSortField(cols, fields) ==
    IF Len(fields) >= 1 THEN FindFieldName(cols, fields[1]) ELSE NoKey

\* __init__: the replication key taken from the sort order
InferReplicationKey(cols, fields) ==
    IF Len(fields) = 1 THEN FindFieldName(cols, fields[1]) ELSE NoKey

\* the state of get_records before it is invoked
NotStarted ==
    /\ error = ""
    /\ start_value = None
    /\ filter_expression = AlwaysTrue
    /\ scan_requested = FALSE
    /\ sort_applied = FALSE
    /\ delivered = 0
    /\ batch_in = <<>>
    /\ records = <<>>
    /\ emitted = <<>>

Init ==
    /\ sort_fields \in SortOrders
    /\ replication_key = InferReplicationKey(TableColumns(TRUE, TRUE), sort_fields)
    /\ key_external = FALSE
    /\ schema = GenerateSchema(TableColumns(TRUE, TRUE))
    /\ pc = "idle"
    /\ NotStarted
    /\ fmt_row = <<>>
    /\ fmt_result = [state |-> "unused"]

\* the host applies a catalog entry: Stream.replication_key is assigned
ApplyCatalog(key) ==
    /\ pc = "idle"
    /\ replication_key' = key
    /\ key_external' = TRUE
    /\ UNCHANGED <<sort_fields, pc, error, start_value, filter_expression,
                   scan_requested, sort_applied, delivered, batch_in, records,
                   emitted, schema, fmt_row, fmt_result>>

\* get_records up to its first batch pull: cursor, filter, scan, sort wrapper.
\* A predicate on no column is rejected by the table layer, when it is built
\* (early) or when the scan is planned.
GetRecords(value, early) ==
    /\ pc = "idle"
    /\ Compatible(replication_key, value)
    /\ start_value' = value
    /\ LET b == build_filter(replication_key, value)
       IN  IF b.raised
           THEN /\ pc' = "raised"
                /\ error' = "ValueError"
                /\ filter_expression' = AlwaysTrue
                /\ scan_requested' = FALSE
                /\ sort_applied' = FALSE
           ELSE IF ~Bindable(b.filter)
           THEN /\ pc' = "raised"
                /\ error' = "ScanError"
                /\ filter_expression' = (IF early THEN AlwaysTrue ELSE b.filter)
                /\ scan_requested' = ~early
                /\ sort_applied' = FALSE
           ELSE /\ pc' = "streaming"
                /\ error' = ""
                /\ filter_expression' = b.filter
                /\ scan_requested' = TRUE
                /\ sort_applied' = (replication_key # NoKey /\ ~is_sorted)
    /\ delivered' = 0
    /\ batch_in' = <<>>
    /\ records' = <<>>
    /\ emitted' = <<>>
    /\ UNCHANGED <<sort_fields, replication_key, key_external, schema, fmt_row,
                   fmt_result>>

\* `for batch in batch_reader`: the next batch, sorted if the reader is wrapped
NextBatch ==
    /\ pc = "streaming"
    /\ Len(emitted) = Len(records)
    /\ delivered < MaxBatches
    /\ \E batch \in Batches(filter_expression) :
         \E out \in read_batch(batch, sort_applied, replication_key) :
            /\ batch_in' = batch
            /\ records' = out
    /\ emitted' = <<>>
    /\ delivered' = delivered + 1
    /\ UNCHANGED <<sort_fields, replication_key, key_external, pc, error,
                   start_value, filter_expression, scan_requested, sort_applied,
                   schema, fmt_row, fmt_result>>

\* `yield self._format_record(record, formatters)` for the next row
YieldRecord ==
    /\ pc = "streaming"
    /\ Len(emitted) < Len(records)
    /\ LET r == format_record(records[Len(emitted) + 1], create_formatters(schema))
       IN  IF r.raised
           THEN /\ pc' = "raised"
                /\ error' = "KeyError"
                /\ UNCHANGED emitted
           ELSE /\ emitted' = Append(emitted, r.value)
                /\ UNCHANGED <<pc, error>>
    /\ UNCHANGED <<sort_fields, replication_key, key_external, start_value,
                   filter_expression, scan_requested, sort_applied, delivered,
                   batch_in, records, schema, fmt_row, fmt_result>>

\* the reader has no further batch: the generator returns
Exhaust ==
    /\ pc = "streaming"
    /\ Len(emitted) = Len(records)
    /\ pc' = "exhausted"
    /\ UNCHANGED <<sort_fields, replication_key, key_external, error, start_value,
                   filter_expression, scan_requested, sort_applied, delivered,
                   batch_in, records, emitted, schema, fmt_row, fmt_result>>

\* the consumer drops the generator (finished, failed or abandoned); a later
\* call starts an independent scan
Close ==
    /\ pc # "idle"
    /\ pc' = "idle"
    /\ error' = ""
    /\ start_value' = None
    /\ filter_expression' = AlwaysTrue
    /\ scan_requested' = FALSE
    /\ sort_applied' = FALSE
    /\ delivered' = 0
    /\ batch_in' = <<>>
    /\ records' = <<>>
    /\ emitted' = <<>>
    /\ UNCHANGED <<sort_fields, replication_key, key_external, schema, fmt_row,
                   fmt_result>>

Next ==
    \/ \E key \in CatalogKeys : ApplyCatalog(key)
    \/ \E value \in StartValues, early \in BOOLEAN : GetRecords(value, early)
    \/ NextBatch
    \/ YieldRecord
    \/ Exhaust
    \/ Close

Spec == Init /\ [][Next]_vars

----------------------------------------------------------------------------
(* FormatSpec: _format_record applied to one row under one schema.         *)

FormatInit ==
    /\ \E tsNullable \in BOOLEAN, valNullable \in BOOLEAN :
          schema = GenerateSchema(TableColumns(tsNullable, valNullable))
    /\ fmt_row \in FormatRows
    /\ fmt_result = [state |-> "pending"]
    /\ sort_fields = <<>>
    /\ replication_key = NoKey
    /\ key_external = FALSE
    /\ pc = "idle"
    /\ NotStarted

ApplyFormat ==
    /\ fmt_result.state = "pending"
    /\ LET r == format_record(fmt_row, create_formatters(schema))
       IN  fmt_result' = [state |-> "done", raised |-> r.raised, value |-> r.value]
    /\ UNCHANGED <<sort_fields, replication_key, key_external, pc, error,
                   start_value, filter_expression, scan_requested, sort_applied,
                   delivered, batch_in, records, emitted, schema, fmt_row>>

FormatNext == ApplyFormat

FormatSpec == FormatInit /\ [][FormatNext]_vars

----------------------------------------------------------------------------
(* Properties.                                                             *)

\* the rows are in ascending order of the key, rows without a value last
AscendingBy(rows, key) ==
    \A i \in 1..(Len(rows) - 1) :
        \/ rows[i + 1][key].k = "none"
        \/ /\ rows[i][key].k # "none"
           /\ ~Greater(rows[i][key], rows[i + 1][key])

\* how often row r occurs in rows
Count(rows, r) == Cardinality({i \in 1..Len(rows) : rows[i] = r})

\* both sequences hold the same rows, each as often
SameRows(a, b) ==
    /\ Len(a) = Len(b)
    /\ \A i \in 1..Len(a) : Count(a, a[i]) = Count(b, a[i])

\* an invocation of get_records is under way or has ended
Invoked == pc # "idle"

\* C1: with a replication key and a stored cursor value v, every emitted
\* record's replication-key value is strictly greater than v.
C1_EmittedAboveCursor ==
    (replication_key # NoKey /\ Comparable(start_value)) =>
        \A i \in 1..Len(emitted) :
            /\ replication_key \in DOMAIN emitted[i]
            /\ Greater(emitted[i][replication_key], start_value)

\* C2: a stream with no replication key requests the scan with the
\* unconditional predicate whatever cursor value the host returned.
C2_NoKeyScansEverything ==
    (Invoked /\ replication_key = NoKey) =>
        (scan_requested /\ filter_expression = AlwaysTrue)

\* C3: with a replication key, the predicate given to the scan is "key strictly
\* greater than the cursor value" when a cursor value is present and the
\* unconditional predicate when none is.
C3_FilterFollowsCursor ==
    (scan_requested /\ replication_key # NoKey) =>
        IF start_value.k = "none"
        THEN filter_expression = AlwaysTrue
        ELSE /\ filter_expression.op = "GreaterThan"
             /\ filter_expression.term = replication_key
             /\ Comparable(start_value)
             /\ Comparable(filter_expression.literal)
             /\ OrdKey(filter_expression.literal) = OrdKey(start_value)

\* C4: a string cursor that is no ISO timestamp makes get_records fail: no scan
\* is requested and no record is emitted.
C4_UnparseableCursorFails ==
    (Invoked /\ start_value.k = "str" /\ ~IsoOk(start_value.s)) =>
        /\ pc = "raised"
        /\ error = "ValueError"
        /\ ~scan_requested
        /\ emitted = <<>>

\* the declared sort order is on the replication key
SortedOnKey ==
    /\ Len(sort_fields) >= 1
    /\ FindFieldName(TableColumns(TRUE, TRUE), sort_fields[1]) = replication_key

\* C5: batches reach the formatter as delivered if the replication key is
\* absent or the table is sorted on it; in every other case each batch is
\* sorted ascending by the replication key.
C5_SortPassDecision ==
    (pc \in {"streaming", "exhausted"} /\ delivered > 0) =>
        IF replication_key = NoKey \/ SortedOnKey
        THEN records = batch_in
        ELSE AscendingBy(records, replication_key)

\* the state part of C6: the batch being emitted is the batch last delivered,
\* reordered ascending, and what was emitted of it follows that order
SortedBatchEmitted ==
    (sort_applied /\ pc \in {"streaming", "exhausted", "raised"}) =>
        /\ SameRows(batch_in, records)
        /\ AscendingBy(records, replication_key)
        /\ Len(emitted) <= Len(records)
        /\ \A i \in 1..Len(emitted) :
              emitted[i] = format_record(records[i], create_formatters(schema)).value

\* the step part of C6: a further batch is pulled only when every row of the
\* current one has been emitted, and batches are counted one by one
BatchByBatch ==
    (sort_applied /\ delivered' # delivered /\ pc' = "streaming") =>
        /\ Len(emitted) = Len(records)
        /\ delivered' = delivered + 1
        /\ emitted' = <<>>

\* C6: under the sort pass the records come batch by batch in the order of
\* delivery, each batch holding the rows of its input batch in ascending order
\* of the replication key, and no batch starts before the previous one is done.
C6_SortedBatchesInOrder == []SortedBatchEmitted /\ [][BatchByBatch]_vars

\* C6 witness: the third batch, delivered out of order, was emitted sorted
C6_Witness ==
    /\ sort_applied
    /\ delivered = 3
    /\ Len(batch_in) >= 2
    /\ ~AscendingBy(batch_in, replication_key)
    /\ Len(emitted) = Len(records)

\* the field's schema is date-formatted and nullable
DateNullable(field) ==
    /\ schema[field].format = "date"
    /\ \E i \in 1..Len(schema[field].type) : schema[field].type[i] = "null"

\* y is the YYYY-MM-DD text of the calendar day <<y, m, d>>
IsDayText(y, day) ==
    /\ y.k = "str" /\ Len(y.s) = 10 /\ IsoOk(y.s)
    /\ FromIso(y.s).t = <<day[1], day[2], day[3], 0, 0, 0>>

\* C7: the formatted record has the row's keys; a nullable date field maps None
\* to None, a string to its first 10 characters, a date or datetime to its
\* YYYY-MM-DD text and anything else to None; every other field is unchanged.
C7_FormatRules ==
    (fmt_result.state = "done" /\ ~fmt_result.raised) =>
        /\ DOMAIN fmt_result.value = DOMAIN fmt_row
        /\ \A f \in DOMAIN fmt_row :
              LET x == fmt_row[f]
                  y == fmt_result.value[f]
              IN  IF DateNullable(f)
                  THEN CASE x.k = "str" ->
                               /\ y.k = "str"
                               /\ Len(y.s) = (IF Len(x.s) < 10 THEN Len(x.s) ELSE 10)
                               /\ \A i \in 1..Len(y.s) : y.s[i] = x.s[i]
                         [] x.k = "date" -> IsDayText(y, x.d)
                         [] x.k = "datetime" -> IsDayText(y, x.t)
                         [] OTHER -> y = None
                  ELSE y = x

\* C7 witness: a datetime in a nullable date field came out as its day
C7_Witness ==
    /\ fmt_result.state = "done" /\ ~fmt_result.raised
    /\ DOMAIN fmt_row = {"id", "ts", "val"}
    /\ DateNullable("ts")
    /\ fmt_row["ts"].k = "datetime"
    /\ fmt_result.value["ts"] = StrV(Slice(TextMay17, 10))
    /\ fmt_result.value["id"] = fmt_row["id"]

\* C8: formatting a row never raises, whatever the row's fields and values.
C8_FormattingNeverRaises == error # "KeyError"

\* the replication key __init__ is to infer from the sort order
ExpectedKey ==
    IF Len(sort_fields) = 1
    THEN (IF sort_fields[1] = 1 THEN "id" ELSE "ts")
    ELSE NoKey

\* a step of get_records (any step but the host's at rest)
GetRecordsStep == pc # "idle" \/ pc' # "idle"

\* C9: the inferred replication key is the sort field's name when the sort
\* order has exactly one field and absent otherwise, and no step of
\* get_records changes the replication key.
C9_KeyInferredAndFixed ==
    /\ [](~key_external => replication_key = ExpectedKey)
    /\ [][GetRecordsStep => replication_key' = replication_key]_vars

\* C9 witness: a two-field sort order left no key, and a scan has run
C9_Witness ==
    /\ ~key_external
    /\ Len(sort_fields) = 2
    /\ replication_key = NoKey
    /\ pc = "exhausted"
    /\ delivered > 0

\* C10: the sort pass is applied only when the host supplied the replication
\* key for a table with an empty sort order, never for an inferred key.
C10_SortPassOnlyForExternalKey ==
    sort_applied => (key_external /\ Len(sort_fields) = 0)

\* C10 witness: an inferred key, a batch delivered out of order on it and
\* emitted as delivered
C10_Witness ==
    /\ ~key_external
    /\ replication_key # NoKey
    /\ pc = "streaming"
    /\ Len(records) >= 2
    /\ ~AscendingBy(records, replication_key)
    /\ Len(emitted) = Len(records)
    /\ ~sort_applied

====
